---- MODULE Spec2Model ----
(***************************************************************************)
(* Action Planner: the Research -> Plan -> Assets pipeline of app.py with  *)
(* the three stage functions (make_research, make_plan, make_assets) and   *)
(* the pydantic schemas of schemas.py.                                     *)
(*                                                                         *)
(* Python values are modelled as follows.                                  *)
(*   None / Optional        the empty sequence <<>>; a present value d is  *)
(*                          the one-element sequence <<d>>                 *)
(*   dict (insertion order) a sequence of <<key, value>> pairs             *)
(*   list                   a sequence                                     *)
(*   pydantic model         a record of its fields                         *)
(*   risks (Union type)     [kind |-> "list" | "dict" | "str", items]      *)
(***************************************************************************)
EXTENDS Integers, Sequences, FiniteSets, TLC

VARIABLES
    audience,     \* text input "Audience"                     (app.py:67)
    constraints,  \* text area "Constraints"                   (app.py:68)
    research,     \* st.session_state.research                 (app.py:74)
    plan,         \* st.session_state.plan                     (app.py:75)
    assets,       \* st.session_state.assets                   (app.py:76)
    edit_mode,    \* st.session_state.edit_mode                (app.py:77)
    run,          \* the widget that triggered the current script run
    pc,           \* position inside the run_all handler
    returned,     \* the local r / p / a of the latest stage step
    log,          \* the latest stage step: the stage function invoked
                  \* and the generation calls it issued
    outcome,      \* per stage, what the current script run reported:
                  \* st.success / st.error / st.warning, or nothing
    error,        \* the exception e the latest stage step caught
                  \* (st.caption(str(e))), "None" when there was none
    escaped       \* an exception left a handler's try block uncaught

vars == <<audience, constraints, research, plan, assets, edit_mode,
          run, pc, returned, log, outcome, error, escaped>>

slots == <<research, plan, assets>>

----------------------------------------------------------------------------
(* Bounds of the generated documents. *)

MaxMilestones == 2
MaxTasks == 6
MaxEffort == 13
MaxInsights == 4

(* schemas.py:8  effort_hrs: int = Field(..., ge=1, le=12) *)
EffortGe == 1
EffortLe == 12

----------------------------------------------------------------------------
(* Python helpers. *)

None == <<>>
Some(d) == <<d>>

(* bool(x) of an Optional pydantic object, and of a str. *)
Truthy(x) == x # None
StrTruthy(s) == s # ""

(* `a or b` on strings. *)
StrOr(a, b) == IF StrTruthy(a) THEN a ELSE b

(* dict: `k in d` and d[k] on a sequence of <<key, value>> pairs. *)
HasKey(d, k) == \E i \in 1..Len(d) : d[i][1] = k
GetKey(d, k) == d[CHOOSE i \in 1..Len(d) : d[i][1] = k][2]

Min(a, b) == IF a < b THEN a ELSE b

(* lst[:n] *)
Take(lst, n) == SubSeq(lst, 1, Min(n, Len(lst)))

----------------------------------------------------------------------------
(* Inputs of the form (app.py:66-71).  The goal is kept fixed. *)

Goal == "Launch a podcast in 2 weeks"
Inputs == { <<"", "">>,
            <<"aspiring CS students", "low budget; weekly episodes; concise">> }

----------------------------------------------------------------------------
(* What the generation service may answer for the risks field. *)

DictRisks == [kind |-> "dict", items |-> << <<"scope creep", "weekly review">>,
                                            <<"low reach", "">> >>]
DictEmptyKey == [kind |-> "dict", items |-> << <<"", "weekly review">> >>]
ListRisks == [kind |-> "list",
              items |-> << << <<"risk", "scope creep">>, <<"mitigation", "weekly review">> >>,
                           << <<"risk", "low reach">>, <<"mitigation", "">> >> >>]
ListNoRisk == [kind |-> "list", items |-> << << <<"mitigation", "weekly review">> >> >>]
StrRisks == [kind |-> "str", items |-> <<>>]

RiskAnswers == {DictRisks, DictEmptyKey, ListRisks, ListNoRisk, StrRisks}
PlanRiskAnswers == {DictRisks, ListRisks, StrRisks}

(* schemas.py:19,34  risks: Union[List[Dict[str, str]], Dict[str, str]] *)
ValidRisks(rk) == rk.kind \in {"list", "dict"}

----------------------------------------------------------------------------
(* Research answers and the ResearchOut schema. *)

ResearchAnswer(rk) ==
    [targets |-> << [name |-> "students", why |-> "core"],
                    [name |-> "teachers", why |-> "reach"] >>,
     insights |-> <<"i1", "i2", "i3", "i4">>,
     risks |-> rk,
     references |-> << [title |-> "guide", url |-> "https://example.com"] >>]

ResearchAnswers == { ResearchAnswer(rk) : rk \in RiskAnswers }

ValidResearchOut(d) == ValidRisks(d.risks)

(* The ResearchOut documents make_assets is applied to on its own: any    *)
(* number of insights up to MaxInsights, risks in either accepted shape.  *)
InsightNames == <<"i1", "i2", "i3", "i4", "i5", "i6">>
InsightLists == { SubSeq(InsightNames, 1, n) : n \in 0..MaxInsights }

DictThreeRisks == [kind |-> "dict", items |-> << <<"scope creep", "weekly review">>,
                                                 <<"low reach", "">>,
                                                 <<"burnout", "batch record">> >>]

ResearchArguments ==
    { [ResearchAnswer(rk) EXCEPT !.insights = ins] :
          ins \in InsightLists,
          rk \in {r \in RiskAnswers \cup {DictThreeRisks} : ValidRisks(r)} }

----------------------------------------------------------------------------
(* Plan answers and the TaskItem / Milestone / PlanOut schemas. *)

(* What the user may leave in a milestone's Title and Due fields. *)
Edits == { <<"Milestone", "2026-11-10">>, <<"Kickoff", "2026-11-17">> }

TaskAnswer(e) == [desc |-> "do it", owner |-> "You", effort_hrs |-> e]
MilestoneAnswer(k, e) ==
    [title |-> "Milestone", due |-> "2026-11-10",
     tasks |-> [i \in 1..k |-> TaskAnswer(e)]]
PlanAnswer(n, k, e, rk) ==
    [milestones |-> [i \in 1..n |-> MilestoneAnswer(k, e)],
     success_metrics |-> <<"100 downloads">>,
     risks |-> rk]

MilestoneCounts == 1..MaxMilestones
TaskCounts == {1, 2, MaxTasks}
Efforts == {0, EffortGe, EffortLe, MaxEffort}

(* A plan whose milestones carry different task lists. *)
PlanVaried ==
    [PlanAnswer(2, 2, EffortGe, ListRisks) EXCEPT
        !.milestones[2].tasks = <<[desc |-> "record", owner |-> "Team", effort_hrs |-> EffortLe]>>]

PlanAnswers ==
    { PlanAnswer(n, 2, EffortGe, ListRisks) : n \in MilestoneCounts }
    \cup { PlanVaried }
    \cup { PlanAnswer(2, k, EffortGe, ListRisks) : k \in TaskCounts }
    \cup { PlanAnswer(2, 2, e, ListRisks) : e \in Efforts }
    \cup { PlanAnswer(2, 2, EffortGe, rk) : rk \in PlanRiskAnswers }

(* ValidTaskItem with the upper bound of effort_hrs left out. *)
ValidTaskItem_NoUpperBound(t) == t.effort_hrs >= EffortGe

ValidTaskItem(t) == t.effort_hrs >= EffortGe /\ t.effort_hrs <= EffortLe
ValidMilestone(m) == \A i \in 1..Len(m.tasks) : ValidTaskItem(m.tasks[i])
ValidPlanOut(d) ==
    /\ \A i \in 1..Len(d.milestones) : ValidMilestone(d.milestones[i])
    /\ ValidRisks(d.risks)

----------------------------------------------------------------------------
(* Assets answers and the AssetsOut schema: four required fields. *)

AssetsFields == {"launch_email", "social_posts", "script_outline", "weekly_checklist"}

AssetsAnswer(mail) ==
    [launch_email |-> mail, social_posts |-> <<"p1", "p2", "p3">>,
     script_outline |-> "## Intro", weekly_checklist |-> "- [ ] record"]
AssetsNoChecklist ==
    [launch_email |-> "Subject: Launch", social_posts |-> <<"p1", "p2", "p3">>,
     script_outline |-> "## Intro"]

AssetsAnswers == {AssetsAnswer("Subject: Launch"), AssetsAnswer("Hello"), AssetsNoChecklist}

ValidAssetsOut(d) == AssetsFields \subseteq DOMAIN d

----------------------------------------------------------------------------
(* The generation service: one outcome per call, either a transport fault *)
(* or an answer, which the structured-output chain validates.             *)

Transport == [kind |-> "transport"]
Answer(d) == [kind |-> "answer", doc |-> d]

ServiceOutcomes(answers) == {Transport} \cup { Answer(d) : d \in answers }

(* The service's outcome for the i-th call of an invocation; it answers  *)
(* nothing beyond the outcomes it was given.                              *)
Ask(oracle, i) == IF i <= Len(oracle) THEN oracle[i] ELSE Transport

(* chain.invoke(payload): [exc, ret]; exc = "None" when it returns. *)
Raised(e) == [exc |-> e, ret |-> None]
Returned(d) == [exc |-> "None", ret |-> Some(d)]

ResearchChainInvoke(o) ==
    IF o.kind = "transport" THEN Raised("TransportError")
    ELSE IF ValidResearchOut(o.doc) THEN Returned(o.doc)
    ELSE Raised("ValidationError")

PlannerChainInvoke(o) ==
    IF o.kind = "transport" THEN Raised("TransportError")
    ELSE IF ValidPlanOut(o.doc) THEN Returned(o.doc)
    ELSE Raised("ValidationError")

AssetsChainInvoke(o) ==
    IF o.kind = "transport" THEN Raised("TransportError")
    ELSE IF ValidAssetsOut(o.doc) THEN Returned(o.doc)
    ELSE Raised("ValidationError")

----------------------------------------------------------------------------
(* Entries of the log of one script run. *)

EvInvoke(stage) == [ev |-> "invoke", stage |-> stage]
EvCall(stage, payload, res) ==
    [ev |-> "call", stage |-> stage, payload |-> payload, exc |-> res.exc, ret |-> res.ret]

Stages == {"Research", "Plan", "Assets"}

(* No stage has reported anything yet in this script run. *)
NoOutcome == [s \in Stages |-> "Idle"]

(* The exception classes the stage functions can raise; all of them are   *)
(* subclasses of Exception, which is what every handler of app.py catches *)
(* (app.py:205, 216, 229, 241, 265, 305).                                 *)
ExceptionClasses == {"ValidationError", "TransportError", "KeyError", "AttributeError"}
Catches(e) == e \in ExceptionClasses

----------------------------------------------------------------------------
(* Risk normalization: [{"risk": k, "mitigation": v} for k, v in          *)
(* risks.items()] when risks is a dict, else unchanged.                   *)

RiskRecord(k, v) == << <<"risk", k>>, <<"mitigation", v>> >>

NormalizeRisks(rk) ==
    IF rk.kind = "dict"
    THEN [kind |-> "list",
          items |-> [i \in 1..Len(rk.items) |-> RiskRecord(rk.items[i][1], rk.items[i][2])]]
    ELSE rk

(* Normalized with the isinstance branch forgotten. *)
Normalized_Skipped(d) == d

(* if isinstance(d.risks, dict): d.risks = [...] *)
Normalized(d) == [d EXCEPT !.risks = NormalizeRisks(d.risks)]

----------------------------------------------------------------------------
(* The stage functions.  `oracle` is what the generation service answers  *)
(* to the successive calls of one invocation.  The result is              *)
(* [calls, exc, ret]: the calls issued, the exception raised ("None" when *)
(* the function returns) and the value returned.                          *)

(* researcher_groq.py:35-44: one call, no try/except. *)
make_research(goal, aud, cons, oracle) ==
    LET payload == [goal |-> goal, audience |-> aud, constraints |-> cons]
        r1 == ResearchChainInvoke(Ask(oracle, 1))
    IN  [calls |-> <<EvCall("Research", payload, r1)>>, exc |-> r1.exc, ret |-> r1.ret]

(* make_plan retrying with the payload it sent first. *)
make_plan_SamePayload(goal, aud, cons, oracle) ==
    LET payload == [goal |-> goal,
                    audience |-> StrOr(aud, "general"),
                    constraints |-> StrOr(cons, "keep budget low")]
        r1 == PlannerChainInvoke(Ask(oracle, 1))
        r2 == PlannerChainInvoke(Ask(oracle, 2))
    IN  IF r1.exc = "ValidationError"
        THEN [calls |-> <<EvCall("Plan", payload, r1), EvCall("Plan", payload, r2)>>,
              exc |-> r2.exc, ret |-> r2.ret]
        ELSE [calls |-> <<EvCall("Plan", payload, r1)>>, exc |-> r1.exc, ret |-> r1.ret]

(* planner_groq.py:37-50 *)
make_plan(goal, aud, cons, oracle) ==
    LET payload == [goal |-> goal,
                    audience |-> StrOr(aud, "general"),
                    constraints |-> StrOr(cons, "keep budget low")]
        r1 == PlannerChainInvoke(Ask(oracle, 1))
        payload2 == [payload EXCEPT !.constraints = @ \o " STRICT JSON ONLY."]
        r2 == PlannerChainInvoke(Ask(oracle, 2))
    IN  IF r1.exc = "ValidationError"
        THEN [calls |-> <<EvCall("Plan", payload, r1), EvCall("Plan", payload2, r2)>>,
              exc |-> r2.exc, ret |-> r2.ret]
        ELSE [calls |-> <<EvCall("Plan", payload, r1)>>, exc |-> r1.exc, ret |-> r1.ret]

(* plan.model_dump_json(): the JSON object of a PlanOut, its members in   *)
(* the order the schema declares the fields; a JSON object is a sequence  *)
(* of <<name, value>> pairs.                                              *)
TaskJson(t) ==
    << <<"desc", t.desc>>, <<"owner", t.owner>>, <<"effort_hrs", t.effort_hrs>> >>
MilestoneJson(m) ==
    << <<"title", m.title>>, <<"due", m.due>>,
       <<"tasks", [j \in 1..Len(m.tasks) |-> TaskJson(m.tasks[j])]>> >>
model_dump_json(p) ==
    << <<"milestones", [i \in 1..Len(p.milestones) |-> MilestoneJson(p.milestones[i])]>>,
       <<"success_metrics", p.success_metrics>>,
       <<"risks", p.risks>> >>

(* research_summary with the slices [:3] and [:2] left out. *)
research_summary_Unsliced(res) ==
    IF ~Truthy(res) THEN <<>>
    ELSE LET rrisks == NormalizeRisks(res[1].risks).items
         IN  << <<"targets", [i \in 1..Len(res[1].targets) |-> res[1].targets[i].name]>>,
                <<"insights_top3", res[1].insights>>,
                <<"risks_top2", [i \in 1..Len(rrisks) |-> GetKey(rrisks[i], "risk")]>> >>

(* producer_groq.py:36-46: the grounding summary, one entry per line of  *)
(* the f-string; the empty string is the empty sequence.                  *)
research_summary(res) ==
    IF ~Truthy(res) THEN <<>>
    ELSE LET rrisks == NormalizeRisks(res[1].risks).items
         IN  << <<"targets", [i \in 1..Len(res[1].targets) |-> res[1].targets[i].name]>>,
                <<"insights_top3", Take(res[1].insights, 3)>>,
                <<"risks_top2", [i \in 1..Min(2, Len(rrisks)) |-> GetKey(rrisks[i], "risk")]>> >>

(* r['risk'] raises KeyError on a risk item without that key. *)
SummaryRaises(res) ==
    /\ Truthy(res)
    /\ LET rrisks == NormalizeRisks(res[1].risks).items
       IN  \E i \in 1..Min(2, Len(rrisks)) : ~HasKey(rrisks[i], "risk")

(* The plan and research objects after make_assets ran: it reads them    *)
(* and rebinds only its local rrisks (producer_groq.py:38-40).            *)
make_assets_arguments(pl, res) == <<pl, res>>

(* make_assets retrying after any exception of the first call. *)
make_assets_RetryAny(goal, aud, cons, pl, res, oracle) ==
    IF SummaryRaises(res) THEN [calls |-> <<>>, exc |-> "KeyError", ret |-> None]
    ELSE IF pl = None THEN [calls |-> <<>>, exc |-> "AttributeError", ret |-> None]
    ELSE
    LET payload == [goal |-> goal,
                    audience |-> StrOr(aud, "general"),
                    constraints |-> StrOr(cons, "concise, friendly"),
                    plan_json |-> model_dump_json(pl[1]),
                    research_summary |-> research_summary(res)]
        r1 == AssetsChainInvoke(Ask(oracle, 1))
        payload2 == [payload EXCEPT !.constraints = @ \o " STRICT JSON ONLY."]
        r2 == AssetsChainInvoke(Ask(oracle, 2))
    IN  IF r1.exc # "None"
        THEN [calls |-> <<EvCall("Assets", payload, r1), EvCall("Assets", payload2, r2)>>,
              exc |-> r2.exc, ret |-> r2.ret]
        ELSE [calls |-> <<EvCall("Assets", payload, r1)>>, exc |-> r1.exc, ret |-> r1.ret]

(* producer_groq.py:30-59 *)
make_assets(goal, aud, cons, pl, res, oracle) ==
    IF SummaryRaises(res) THEN [calls |-> <<>>, exc |-> "KeyError", ret |-> None]
    ELSE IF pl = None THEN [calls |-> <<>>, exc |-> "AttributeError", ret |-> None]
    ELSE
    LET payload == [goal |-> goal,
                    audience |-> StrOr(aud, "general"),
                    constraints |-> StrOr(cons, "concise, friendly"),
                    plan_json |-> model_dump_json(pl[1]),
                    research_summary |-> research_summary(res)]
        r1 == AssetsChainInvoke(Ask(oracle, 1))
        payload2 == [payload EXCEPT !.constraints = @ \o " STRICT JSON ONLY."]
        r2 == AssetsChainInvoke(Ask(oracle, 2))
    IN  IF r1.exc = "ValidationError"
        THEN [calls |-> <<EvCall("Assets", payload, r1), EvCall("Assets", payload2, r2)>>,
              exc |-> r2.exc, ret |-> r2.ret]
        ELSE [calls |-> <<EvCall("Assets", payload, r1)>>, exc |-> r1.exc, ret |-> r1.ret]

----------------------------------------------------------------------------
(* The behaviours of the generation service during one invocation of a   *)
(* stage function in the current state: the sequences of outcomes in     *)
(* which every call the function issues is answered and no more.         *)

MaxCalls == 3

StageOutcomes(stage) ==
    CASE stage = "Research" -> ServiceOutcomes(ResearchAnswers)
      [] stage = "Plan" -> ServiceOutcomes(PlanAnswers)
      [] stage = "Assets" -> ServiceOutcomes(AssetsAnswers)

StageCall(stage, oracle) ==
    CASE stage = "Research" -> make_research(Goal, audience, constraints, oracle)
      [] stage = "Plan" -> make_plan(Goal, audience, constraints, oracle)
      [] stage = "Assets" -> make_assets(Goal, audience, constraints, plan, research, oracle)

RECURSIVE OraclesFrom(_, _, _)
OraclesFrom(stage, oracle, k) ==
    IF Len(StageCall(stage, oracle).calls) <= Len(oracle) THEN {oracle}
    ELSE IF k = 0 THEN {}
    ELSE UNION { OraclesFrom(stage, Append(oracle, o), k - 1) : o \in StageOutcomes(stage) }

Oracles(stage) == OraclesFrom(stage, <<>>, MaxCalls)

(* What one invocation of the stage function can do in the current state. *)
StageResults(stage) == { StageCall(stage, oracle) : oracle \in Oracles(stage) }

----------------------------------------------------------------------------
(* The session after construction (app.py:66-77). *)

Init ==
    /\ audience = "aspiring CS students"
    /\ constraints = "low budget; weekly episodes; concise"
    /\ research = None
    /\ plan = None
    /\ assets = None
    /\ edit_mode = FALSE
    /\ run = "none"
    /\ pc = "idle"
    /\ returned = None
    /\ log = <<>>
    /\ outcome = NoOutcome
    /\ error = "None"
    /\ escaped = FALSE

(* The user edits the text inputs; the script reruns with no button set. *)
SetInputs ==
    /\ pc = "idle"
    /\ \E in \in Inputs : audience' = in[1] /\ constraints' = in[2]
    /\ run' = "inputs"
    /\ returned' = None
    /\ log' = <<>>
    /\ outcome' = NoOutcome
    /\ error' = "None"
    /\ escaped' = FALSE
    /\ UNCHANGED <<research, plan, assets, edit_mode, pc>>

(* ClearAll with the Assets slot left as it is. *)
ClearAll_KeepsAssets ==
    /\ pc = "idle"
    /\ research' = None
    /\ plan' = None
    /\ edit_mode' = FALSE
    /\ run' = "clear_all"
    /\ returned' = None
    /\ log' = <<>>
    /\ outcome' = NoOutcome
    /\ error' = "None"
    /\ escaped' = FALSE
    /\ UNCHANGED <<audience, constraints, assets, pc>>

(* app.py:189-194 *)
ClearAll ==
    /\ pc = "idle"
    /\ research' = None
    /\ plan' = None
    /\ assets' = None
    /\ edit_mode' = FALSE
    /\ run' = "clear_all"
    /\ returned' = None
    /\ log' = <<>>
    /\ outcome' = NoOutcome
    /\ error' = "None"
    /\ escaped' = FALSE
    /\ UNCHANGED <<audience, constraints, pc>>

----------------------------------------------------------------------------
(* One stage step: a try block of app.py around one stage function.  res  *)
(* is the stage function's result.                                        *)

StepLog(stage, res) == <<EvInvoke(stage)>> \o res.calls

(* st.success after the assignment to the slot, st.error in the handler. *)
StepOutcome(before, stage, res) ==
    [before EXCEPT ![stage] = IF res.exc = "None" THEN "Succeeded" ELSE "Failed"]

(* The slot after the try block: the produced document on success, the   *)
(* prior value when the stage function raised.                            *)
ResearchSlotAfter(slot, res) ==
    IF res.exc = "None" THEN Some(Normalized(res.ret[1])) ELSE slot
(* PlanSlotAfter with the slot assigned before the call's result is known. *)
PlanSlotAfter_ClearedOnFailure(slot, res) ==
    IF res.exc = "None" THEN Some(Normalized(res.ret[1])) ELSE None

PlanSlotAfter(slot, res) ==
    IF res.exc = "None" THEN Some(Normalized(res.ret[1])) ELSE slot
AssetsSlotAfter(slot, res) ==
    IF res.exc = "None" THEN res.ret ELSE slot

(* app.py:233-242 *)
RunResearch ==
    /\ pc = "idle"
    /\ \E res \in StageResults("Research") :
         /\ research' = ResearchSlotAfter(research, res)
         /\ returned' = res.ret
         /\ error' = res.exc
         /\ log' = StepLog("Research", res)
         /\ outcome' = StepOutcome(NoOutcome, "Research", res)
         /\ escaped' = ~(res.exc = "None" \/ Catches(res.exc))
    /\ run' = "run_research"
    /\ UNCHANGED <<audience, constraints, plan, assets, edit_mode, pc>>

(* app.py:256-266 *)
RunPlan ==
    /\ pc = "idle"
    /\ \E res \in StageResults("Plan") :
         /\ plan' = PlanSlotAfter(plan, res)
         /\ edit_mode' = IF res.exc = "None" THEN TRUE ELSE edit_mode
         /\ returned' = res.ret
         /\ error' = res.exc
         /\ log' = StepLog("Plan", res)
         /\ outcome' = StepOutcome(NoOutcome, "Plan", res)
         /\ escaped' = ~(res.exc = "None" \/ Catches(res.exc))
    /\ run' = "run_plan"
    /\ UNCHANGED <<audience, constraints, research, assets, pc>>

(* RunAssets with the precondition tested on the Research slot. *)
RunAssets_GatedOnResearch ==
    /\ pc = "idle"
    /\ IF ~Truthy(research)
       THEN /\ log' = <<>>
            /\ outcome' = [NoOutcome EXCEPT !["Assets"] = "Refused"]
            /\ returned' = None
            /\ error' = "None"
            /\ escaped' = FALSE
            /\ UNCHANGED assets
       ELSE \E res \in StageResults("Assets") :
              /\ assets' = AssetsSlotAfter(assets, res)
              /\ returned' = res.ret
              /\ error' = res.exc
              /\ log' = StepLog("Assets", res)
              /\ outcome' = StepOutcome(NoOutcome, "Assets", res)
              /\ escaped' = ~(res.exc = "None" \/ Catches(res.exc))
    /\ run' = "run_assets"
    /\ UNCHANGED <<audience, constraints, research, plan, edit_mode, pc>>

(* app.py:292-306 *)
RunAssets ==
    /\ pc = "idle"
    /\ IF ~Truthy(plan)
       THEN /\ log' = <<>>
            /\ outcome' = [NoOutcome EXCEPT !["Assets"] = "Refused"]
            /\ returned' = None
            /\ error' = "None"
            /\ escaped' = FALSE
            /\ UNCHANGED assets
       ELSE \E res \in StageResults("Assets") :
              /\ assets' = AssetsSlotAfter(assets, res)
              /\ returned' = res.ret
              /\ error' = res.exc
              /\ log' = StepLog("Assets", res)
              /\ outcome' = StepOutcome(NoOutcome, "Assets", res)
              /\ escaped' = ~(res.exc = "None" \/ Catches(res.exc))
    /\ run' = "run_assets"
    /\ UNCHANGED <<audience, constraints, research, plan, edit_mode, pc>>

----------------------------------------------------------------------------
(* Run all (app.py:197-230): three try blocks in sequence, the second and *)
(* third each behind a test of a session slot.                            *)

(* app.py:198-206 *)
RunAllResearch ==
    /\ pc = "idle"
    /\ \E res \in StageResults("Research") :
         /\ research' = ResearchSlotAfter(research, res)
         /\ returned' = res.ret
         /\ error' = res.exc
         /\ log' = StepLog("Research", res)
         /\ outcome' = StepOutcome(NoOutcome, "Research", res)
         /\ escaped' = ~(res.exc = "None" \/ Catches(res.exc))
         /\ pc' = IF res.exc = "None" \/ Catches(res.exc) THEN "run_all_plan" ELSE "idle"
    /\ run' = "run_all"
    /\ UNCHANGED <<audience, constraints, plan, assets, edit_mode>>

(* app.py:208-217 *)
RunAllPlan ==
    /\ pc = "run_all_plan"
    /\ IF ~Truthy(research)
       THEN /\ log' = <<>>
            /\ outcome' = [outcome EXCEPT !["Plan"] = "Skipped"]
            /\ returned' = None
            /\ error' = "None"
            /\ pc' = "run_all_assets"
            /\ UNCHANGED <<plan, escaped>>
       ELSE \E res \in StageResults("Plan") :
              /\ plan' = PlanSlotAfter(plan, res)
              /\ returned' = res.ret
              /\ error' = res.exc
              /\ log' = StepLog("Plan", res)
              /\ outcome' = StepOutcome(outcome, "Plan", res)
              /\ escaped' = ~(res.exc = "None" \/ Catches(res.exc))
              /\ pc' = IF res.exc = "None" \/ Catches(res.exc)
                       THEN "run_all_assets" ELSE "idle"
    /\ UNCHANGED <<audience, constraints, research, assets, edit_mode, run>>

(* app.py:219-230 *)
RunAllAssets ==
    /\ pc = "run_all_assets"
    /\ IF ~Truthy(plan)
       THEN /\ log' = <<>>
            /\ outcome' = [outcome EXCEPT !["Assets"] = "Skipped"]
            /\ returned' = None
            /\ error' = "None"
            /\ UNCHANGED <<assets, escaped>>
       ELSE \E res \in StageResults("Assets") :
              /\ assets' = AssetsSlotAfter(assets, res)
              /\ returned' = res.ret
              /\ error' = res.exc
              /\ log' = StepLog("Assets", res)
              /\ outcome' = StepOutcome(outcome, "Assets", res)
              /\ escaped' = ~(res.exc = "None" \/ Catches(res.exc))
    /\ pc' = "idle"
    /\ UNCHANGED <<audience, constraints, research, plan, edit_mode, run>>

----------------------------------------------------------------------------
(* The edit_plan form (app.py:268-284): Save changes replaces every       *)
(* milestone by Milestone(title=t, due=due, tasks=m.tasks).               *)

(* EditedMilestones with the task lists taken in reverse milestone order. *)
EditedMilestones_TasksReversed(ms, edits) ==
    [i \in 1..Len(ms) |->
        [title |-> edits[i][1], due |-> edits[i][2], tasks |-> ms[Len(ms) + 1 - i].tasks]]

EditedMilestones(ms, edits) ==
    [i \in 1..Len(ms) |-> [title |-> edits[i][1], due |-> edits[i][2], tasks |-> ms[i].tasks]]

SaveChanges ==
    /\ pc = "idle"
    /\ Truthy(plan)
    /\ \E edits \in [1..Len(plan[1].milestones) -> Edits] :
         plan' = Some([plan[1] EXCEPT !.milestones = EditedMilestones(@, edits)])
    /\ run' = "save"
    /\ returned' = None
    /\ log' = <<>>
    /\ outcome' = NoOutcome
    /\ error' = "None"
    /\ escaped' = FALSE
    /\ UNCHANGED <<audience, constraints, research, assets, edit_mode, pc>>

----------------------------------------------------------------------------

Next ==
    \/ SetInputs
    \/ ClearAll
    \/ RunResearch
    \/ RunPlan
    \/ RunAssets
    \/ RunAllResearch
    \/ RunAllPlan
    \/ RunAllAssets
    \/ SaveChanges

Spec == Init /\ [][Next]_vars

----------------------------------------------------------------------------
(* make_assets on its own (producer_groq.py:30-59): plan and research     *)
(* hold the arguments of the call, which need not come from the session,  *)
(* so research may still have its risks as a mapping.                     *)

InitMakeAssets ==
    /\ \E in \in Inputs : audience = in[1] /\ constraints = in[2]
    /\ research \in {None} \cup { Some(d) : d \in ResearchArguments }
    /\ plan \in { Some(d) : d \in {a \in PlanAnswers : ValidPlanOut(a)} }
    /\ assets = None
    /\ edit_mode = FALSE
    /\ run = "none"
    /\ pc = "idle"
    /\ returned = None
    /\ log = <<>>
    /\ outcome = NoOutcome
    /\ error = "None"
    /\ escaped = FALSE

CallMakeAssets ==
    /\ pc = "idle"
    /\ \E res \in StageResults("Assets") :
         /\ returned' = res.ret
         /\ error' = res.exc
         /\ log' = StepLog("Assets", res)
    /\ plan' = make_assets_arguments(plan, research)[1]
    /\ research' = make_assets_arguments(plan, research)[2]
    /\ run' = "make_assets"
    /\ UNCHANGED <<audience, constraints, assets, edit_mode, pc, outcome, escaped>>

NextMakeAssets == CallMakeAssets

SpecMakeAssets == InitMakeAssets /\ [][NextMakeAssets]_vars

----------------------------------------------------------------------------
(* Vocabulary of the properties. *)

(* The stage function of stage s was invoked in the current script run. *)
Invoked(s) == outcome[s] \in {"Succeeded", "Failed"}

(* The generation calls of the latest stage step. *)
Calls == IF log = <<>> THEN <<>> ELSE Tail(log)
LogStage == IF log = <<>> THEN "none" ELSE log[1].stage

(* The step being taken is the try block of the given stage. *)
ResearchStep == pc = "idle" /\ run' \in {"run_research", "run_all"}
PlanStep == (pc = "idle" /\ run' = "run_plan") \/ pc = "run_all_plan"
AssetsStep == (pc = "idle" /\ run' = "run_assets") \/ pc = "run_all_assets"

----------------------------------------------------------------------------
(* C1. Run-all short-circuit: in a run-all, when the Research call failed *)
(* neither make_plan nor make_assets is invoked, and when Research        *)
(* succeeded but the Plan call failed make_assets is not invoked.         *)
C1_RunAllShortCircuit ==
    run = "run_all" =>
        /\ outcome["Research"] = "Failed" => ~Invoked("Plan") /\ ~Invoked("Assets")
        /\ (outcome["Research"] = "Succeeded" /\ outcome["Plan"] = "Failed")
               => ~Invoked("Assets")

----------------------------------------------------------------------------
(* C2. Assets precondition: with the Plan slot empty, the single-stage    *)
(* Assets action invokes nothing, issues no generation call, shows the    *)
(* warning and leaves the three slots unchanged; the Assets step of run   *)
(* all issues no call either while the Plan slot is empty.                *)
C2_AssetsPrecondition ==
    [][ /\ (pc = "idle" /\ run' = "run_assets" /\ ~Truthy(plan))
              => /\ log' = <<>>
                 /\ outcome'["Assets"] = "Refused"
                 /\ UNCHANGED slots
        /\ (pc = "run_all_assets" /\ ~Truthy(plan))
              => /\ log' = <<>>
                 /\ ~Invoked("Assets")'
                 /\ UNCHANGED slots ]_vars

(* The Assets button was refused while a ResearchDoc was stored. *)
C2_Witness ==
    /\ run = "run_assets"
    /\ outcome["Assets"] = "Refused"
    /\ plan = None
    /\ Truthy(research)

----------------------------------------------------------------------------
(* C3. Per-stage outcome: in single-stage and in run-all mode, a stage    *)
(* whose call succeeds leaves in its slot the document the call returned  *)
(* (its risks in list form), a stage whose call raises leaves all three   *)
(* slots as they were, and no exception leaves the handler.               *)
SameButRisks(stored, produced) ==
    /\ Len(stored) = 1
    /\ Len(produced) = 1
    /\ [stored[1] EXCEPT !.risks = produced[1].risks] = produced[1]

C3_StageOutcome ==
    [][ /\ ResearchStep =>
             /\ outcome'["Research"] \in {"Succeeded", "Failed"}
             /\ outcome'["Research"] = "Succeeded"
                  => /\ returned' = Calls'[Len(Calls')].ret
                     /\ SameButRisks(research', returned')
             /\ outcome'["Research"] = "Failed" => UNCHANGED slots
             /\ ~escaped'
        /\ PlanStep =>
             /\ outcome'["Plan"] = "Succeeded"
                  => /\ returned' = Calls'[Len(Calls')].ret
                     /\ SameButRisks(plan', returned')
             /\ outcome'["Plan"] = "Failed" => UNCHANGED slots
             /\ ~escaped'
        /\ AssetsStep =>
             /\ outcome'["Assets"] = "Succeeded"
                  => /\ returned' = Calls'[Len(Calls')].ret
                     /\ Len(returned') = 1
                     /\ assets' = returned'
             /\ outcome'["Assets"] = "Failed" => UNCHANGED slots
             /\ ~escaped' ]_vars

(* A run-all whose Plan call raised over a stored plan, which the Assets *)
(* step then used.                                                        *)
C3_Witness ==
    /\ run = "run_all"
    /\ pc = "idle"
    /\ outcome["Research"] = "Succeeded"
    /\ outcome["Plan"] = "Failed"
    /\ outcome["Assets"] = "Succeeded"
    /\ Truthy(plan)

----------------------------------------------------------------------------
(* C4. Retry-once bound of make_plan and make_assets: a first call that   *)
(* returns is the only call; after a validation error of the first call   *)
(* exactly one more call is made, with the same payload but for           *)
(* " STRICT JSON ONLY." appended to constraints; the stage returns the    *)
(* second call's document, or raises its validation error.                *)
C4_RetryOnce ==
    (LogStage \in {"Plan", "Assets"} /\ Calls # <<>>) =>
        /\ Len(Calls) <= 2
        /\ Calls[1].exc = "None"
             => /\ Len(Calls) = 1
                /\ error = "None"
                /\ returned = Calls[1].ret
        /\ Calls[1].exc = "ValidationError"
             => /\ Len(Calls) = 2
                /\ Calls[2].payload =
                      [Calls[1].payload EXCEPT
                          !.constraints = Calls[1].payload.constraints \o " STRICT JSON ONLY."]
                /\ Calls[2].exc = "None"
                     => /\ error = "None"
                        /\ Truthy(returned)
                        /\ returned = Calls[2].ret
                        /\ outcome[LogStage] = "Succeeded"
                /\ Calls[2].exc = "ValidationError"
                     => /\ error = "ValidationError"
                        /\ outcome[LogStage] = "Failed"

(* make_plan retried after a validation error and returned the second    *)
(* call's document.                                                       *)
C4_Witness ==
    /\ LogStage = "Plan"
    /\ Len(Calls) = 2
    /\ Calls[1].exc = "ValidationError"
    /\ Calls[2].exc = "None"
    /\ outcome["Plan"] = "Succeeded"

----------------------------------------------------------------------------
(* C5. Retry-once of make_research: after a validation error of the first *)
(* call the stage makes exactly one more call, with the directive         *)
(* appended to constraints, and returns its document or raises its error. *)
C5_ResearchRetryOnce ==
    (LogStage = "Research" /\ Calls # <<>> /\ Calls[1].exc = "ValidationError") =>
        /\ Len(Calls) = 2
        /\ Calls[2].payload.constraints =
              Calls[1].payload.constraints \o " STRICT JSON ONLY."
        /\ Calls[2].exc = "None" => returned = Calls[2].ret

----------------------------------------------------------------------------
(* C6. Transport errors are never retried: in every stage a call that     *)
(* raises a transport error is the last call of the invocation, the       *)
(* stage reports it as its failure and no exception leaves the handler.   *)
C6_TransportNotRetried ==
    \A i \in 1..Len(Calls) :
        Calls[i].exc = "TransportError"
            => /\ i = Len(Calls)
               /\ error = "TransportError"
               /\ outcome[LogStage] = "Failed"
               /\ ~escaped

(* The first Assets call met a transport fault. *)
C6_Witness ==
    /\ LogStage = "Assets"
    /\ Len(Calls) = 1
    /\ Calls[1].exc = "TransportError"
    /\ outcome["Assets"] = "Failed"

----------------------------------------------------------------------------
(* C7. Cardinality enforcement: a stored PlanDoc has 2 to 5 milestones    *)
(* and each of its milestones has 2 to 5 tasks.                           *)
C7_CardinalityEnforced ==
    Truthy(plan) =>
        /\ Len(plan[1].milestones) \in 2..5
        /\ \A i \in 1..Len(plan[1].milestones) :
               Len(plan[1].milestones[i].tasks) \in 2..5

----------------------------------------------------------------------------
(* C8. effort_hrs hard bound: a Plan call returns no document with a task *)
(* whose effort_hrs is outside 1..12, and every task of the stored        *)
(* PlanDoc has effort_hrs in 1..12, plan edits included.                  *)
EffortsWithin(d) ==
    \A i \in 1..Len(d.milestones) :
        \A j \in 1..Len(d.milestones[i].tasks) :
            d.milestones[i].tasks[j].effort_hrs \in 1..12

C8_EffortBound ==
    /\ Truthy(plan) => EffortsWithin(plan[1])
    /\ LogStage = "Plan" =>
          \A i \in 1..Len(Calls) : Calls[i].exc = "None" => EffortsWithin(Calls[i].ret[1])

(* Edits were saved to a plan that holds a task of 12 hours. *)
C8_Witness ==
    /\ run = "save"
    /\ Truthy(plan)
    /\ plan[1].milestones[1].title = "Kickoff"
    /\ plan[1].milestones[1].tasks[1].effort_hrs = 12

----------------------------------------------------------------------------
(* C9. Risk normalization: a stored ResearchDoc or PlanDoc has its risks  *)
(* in list form; after a successful Research or Plan call a mapping       *)
(* answer is stored as the list of {risk: k, mitigation: v} in the        *)
(* mapping's order and a list answer is stored unchanged; normalizing a   *)
(* stored document again changes nothing.                                 *)
ListFormOf(stored, raw) ==
    /\ stored.kind = "list"
    /\ raw.kind = "dict" =>
          /\ Len(stored.items) = Len(raw.items)
          /\ \A i \in 1..Len(raw.items) :
                stored.items[i] = << <<"risk", raw.items[i][1]>>,
                                     <<"mitigation", raw.items[i][2]>> >>
    /\ raw.kind = "list" => stored = raw

C9_RiskNormalization ==
    /\ Truthy(research) => /\ research[1].risks.kind = "list"
                           /\ Normalized(research[1]) = research[1]
    /\ Truthy(plan) => /\ plan[1].risks.kind = "list"
                       /\ Normalized(plan[1]) = plan[1]
    /\ (LogStage = "Research" /\ outcome["Research"] = "Succeeded")
          => ListFormOf(research[1].risks, returned[1].risks)
    /\ (LogStage = "Plan" /\ outcome["Plan"] = "Succeeded")
          => ListFormOf(plan[1].risks, returned[1].risks)

(* The Plan call of a run-all answered risks as a mapping. *)
C9_Witness ==
    /\ run = "run_all"
    /\ LogStage = "Plan"
    /\ outcome["Plan"] = "Succeeded"
    /\ returned[1].risks.kind = "dict"
    /\ Len(returned[1].risks.items) = 2

----------------------------------------------------------------------------
(* C10. Normalized RiskItem invariant: every element of the risks of the  *)
(* stored ResearchDoc and of the stored PlanDoc has a risk field with a   *)
(* non-empty value.                                                       *)
RiskItemsNamed(d) ==
    \A i \in 1..Len(d.risks.items) :
        /\ HasKey(d.risks.items[i], "risk")
        /\ GetKey(d.risks.items[i], "risk") # ""

C10_RiskNonEmpty ==
    /\ Truthy(research) => RiskItemsNamed(research[1])
    /\ Truthy(plan) => RiskItemsNamed(plan[1])

----------------------------------------------------------------------------
(* C11. Grounding summary of make_assets: every generation call carries  *)
(* an empty summary when research is None, and otherwise the names of     *)
(* all targets in order, the first three insights (all when fewer) and    *)
(* the risk text of the first two risks, a mapping read as the list of    *)
(* its entries; the call carries the plan as its JSON document; and the   *)
(* plan and research passed in are left as they were.                     *)

(* The risk text of the j-th risk of a ResearchOut, in either shape. *)
RiskText(rk, j) ==
    IF rk.kind = "dict" THEN rk.items[j][1] ELSE GetKey(rk.items[j], "risk")

SummaryOf(summary, d) ==
    /\ Len(summary) = 3
    /\ summary[1][1] = "targets"
    /\ Len(summary[1][2]) = Len(d.targets)
    /\ \A j \in 1..Len(d.targets) : summary[1][2][j] = d.targets[j].name
    /\ summary[2][1] = "insights_top3"
    /\ Len(summary[2][2]) = (IF Len(d.insights) < 3 THEN Len(d.insights) ELSE 3)
    /\ \A j \in 1..Len(summary[2][2]) : summary[2][2][j] = d.insights[j]
    /\ summary[3][1] = "risks_top2"
    /\ Len(summary[3][2]) = (IF Len(d.risks.items) < 2 THEN Len(d.risks.items) ELSE 2)
    /\ \A j \in 1..Len(summary[3][2]) : summary[3][2][j] = RiskText(d.risks, j)

(* The JSON document names every field of the plan with its value. *)
PlanJsonOf(json, p) ==
    /\ [i \in 1..Len(json) |-> json[i][1]] = <<"milestones", "success_metrics", "risks">>
    /\ Len(json[1][2]) = Len(p.milestones)
    /\ \A i \in 1..Len(p.milestones) :
          LET mj == json[1][2][i]
              m == p.milestones[i]
          IN  /\ [k \in 1..Len(mj) |-> mj[k][1]] = <<"title", "due", "tasks">>
              /\ mj[1][2] = m.title
              /\ mj[2][2] = m.due
              /\ Len(mj[3][2]) = Len(m.tasks)
              /\ \A j \in 1..Len(m.tasks) :
                    mj[3][2][j] = << <<"desc", m.tasks[j].desc>>,
                                     <<"owner", m.tasks[j].owner>>,
                                     <<"effort_hrs", m.tasks[j].effort_hrs>> >>
    /\ json[2][2] = p.success_metrics
    /\ json[3][2] = p.risks

C11_GroundingSummary ==
    [][ /\ \A i \in 1..Len(Calls') :
              /\ ~Truthy(research) => Calls'[i].payload.research_summary = <<>>
              /\ Truthy(research) => SummaryOf(Calls'[i].payload.research_summary, research[1])
              /\ PlanJsonOf(Calls'[i].payload.plan_json, plan[1])
        /\ research' = research
        /\ plan' = plan ]_vars

(* A call was issued for a research with four insights and three risks   *)
(* given as a mapping.                                                    *)
C11_Witness ==
    /\ run = "make_assets"
    /\ Len(Calls) >= 1
    /\ Truthy(research)
    /\ research[1].risks.kind = "dict"
    /\ Len(research[1].risks.items) = 3
    /\ Len(research[1].insights) = 4
    /\ Len(Calls[1].payload.research_summary[3][2]) = 2

----------------------------------------------------------------------------
(* C12. Frame of Save changes: the save replaces each milestone, position *)
(* by position, with one that has the title and due date left in the form *)
(* and the task list that milestone had; the number and order of          *)
(* milestones, every task, success_metrics, risks and the stored research *)
(* and assets are unchanged.  The Assets slot changes only in an Assets   *)
(* step that succeeded or in a reset.                                     *)
SaveStep == pc = "idle" /\ run' = "save"

C12_SaveFrame ==
    [][ /\ SaveStep =>
              /\ Truthy(plan) /\ Truthy(plan')
              /\ Len(plan'[1].milestones) = Len(plan[1].milestones)
              /\ \A i \in 1..Len(plan[1].milestones) :
                    /\ plan'[1].milestones[i].tasks = plan[1].milestones[i].tasks
                    /\ <<plan'[1].milestones[i].title, plan'[1].milestones[i].due>> \in Edits
                    /\ DOMAIN plan'[1].milestones[i] = {"title", "due", "tasks"}
              /\ plan'[1].success_metrics = plan[1].success_metrics
              /\ plan'[1].risks = plan[1].risks
              /\ DOMAIN plan'[1] = DOMAIN plan[1]
              /\ research' = research
              /\ assets' = assets
              /\ edit_mode' = edit_mode
        /\ assets' # assets =>
              \/ AssetsStep /\ outcome'["Assets"] = "Succeeded"
              \/ pc = "idle" /\ run' = "clear_all" ]_vars

(* A save with assets stored that renamed the first of two milestones    *)
(* whose task lists differ.                                               *)
C12_Witness ==
    /\ run = "save"
    /\ Truthy(assets)
    /\ Truthy(research)
    /\ Len(plan[1].milestones) = 2
    /\ plan[1].milestones[1].tasks # plan[1].milestones[2].tasks
    /\ plan[1].milestones[1].title = "Kickoff"
    /\ plan[1].milestones[2].title = "Milestone"

----------------------------------------------------------------------------
(* C13. Session-store invariant: in every reachable state of the session, *)
(* whenever the Assets slot is non-empty the Plan slot is non-empty, so   *)
(* the export code that reads the stored plan whenever assets exist never *)
(* reads an empty Plan slot; and every reset leaves the Research, Plan    *)
(* and Assets slots empty and edit_mode false.                            *)

(* The assets rendering and ZIP export run, and read the plan            *)
(* (app.py:308-333).                                                      *)
ExportReadsPlan == Truthy(assets)

ResetStep == pc = "idle" /\ run' = "clear_all"

C13_SessionInvariant ==
    /\ [](ExportReadsPlan => Truthy(plan))
    /\ [][ ResetStep =>
              /\ research' = None
              /\ plan' = None
              /\ assets' = None
              /\ edit_mode' = FALSE ]_vars

(* Assets are stored and the latest action was a Plan stage that failed. *)
C13_Witness ==
    /\ ExportReadsPlan
    /\ run = "run_plan"
    /\ outcome["Plan"] = "Failed"
    /\ Truthy(plan)

====
